---- MODULE Spec2Model ----
(***************************************************************************)
(* Model of pkg/acme (certManager): the issue/renew decision of            *)
(* IssueOrRenewCert and the DNS-01 challenge provider (Present, CleanUp,   *)
(* finalCleanUp) working on zone configurations that are reconciled        *)
(* against live provider state.                                            *)
(***************************************************************************)
EXTENDS Integers, Sequences, FiniteSets, TLC

\* ------------------------------------------------------------------ bounds
MaxCalls  == 2      \* IssueOrRenewCert calls made on one certManager
MaxDrift  == 1      \* drift events the environment may cause
MaxFailAt == 1      \* a correction batch may be made to fail at its 1st..MaxFailAt-th correction
CertLife  == 3      \* validity of a fresh certificate, in half days
MaxNames  == 2      \* length of the name lists dnsNamesEqual is applied to on its own
MaxDiff   == 2      \* deletions, creations, modifications of a diff given to the provider on its own

\* Remaining validity is a float number of days; the model counts half days.
DayUnits == 2

\* ------------------------------------------------------------------ universe
Zones     == {"z1", "z2"}
CertNames == {"c1", "c2"}
Providers == {"p1", "p2"}

\* lexicographic order of the names, as sort.Strings orders them
NameOrder == <<"a.z1", "a.z2", "b.z1">>
Rank(n) == CHOOSE i \in 1..Len(NameOrder) : NameOrder[i] = n

\* cfg.DomainContainingFQDN: the zone that holds a name
DomainContainingFQDN(n) == IF n \in {"a.z1", "b.z1"} THEN "z1" ELSE "z2"

\* the renewUnder (days) callers pass
RenewUnders == {1}

NoErr == <<"nil">>

\* ------------------------------------------------------------------ records
\* A record is <<type, label, value>>.
ARec(v)      == <<"A", "@", v>>
ForeignRec   == <<"A", "x", "v1">>
NSRec(ns)    == <<"NS", "@", ns>>
\* dns01.GetRecord + SetTargetTXT + SetLabelFromFQDN: the validation record of a
\* name for a key authorization
TXTRec(n, k) == <<"TXT", n, k>>

IsTXT(r) == r[1] = "TXT"
\* records of one label and type are one record set, except TXT values, which
\* stand side by side
Key(r) == IF IsTXT(r) THEN r ELSE <<r[1], r[2]>>

Range(s) == { s[i] : i \in 1..Len(s) }

RECURSIVE SetToSeq(_)
SetToSeq(S) == IF S = {} THEN <<>>
               ELSE LET x == CHOOSE y \in S : TRUE IN <<x>> \o SetToSeq(S \ {x})

\* nameservers.DetermineNameservers: the nameservers the zone's providers report
DetermineNameservers(d) == <<"ns1">>

\* nameservers.AddNSRecords: NS records for d.Nameservers that d lacks
AddNSRecords(d) ==
    LET missing == SelectSeq(d.Nameservers, LAMBDA ns : NSRec(ns) \notin Range(d.Records))
    IN  [d EXCEPT !.Records = d.Records \o [i \in 1..Len(missing) |-> NSRec(missing[i])]]

\* DomainConfig.Copy: a deep copy shares nothing with d
Copy(d) == d

\* ------------------------------------------------------------------ reconciliation
\* diff.NewCompat(dc).IncrementalDiff(existing)
IncrementalDiff(desired, existing) ==
    [ toReport |-> <<>>,
      del    |-> SetToSeq({ e \in existing : ~ \E r \in desired : Key(r) = Key(e) }),
      create |-> SetToSeq({ r \in desired : ~ \E e \in existing : Key(e) = Key(r) }),
      modify |-> SetToSeq({ r \in desired : \E e \in existing : Key(e) = Key(r) /\ e # r }) ]

\* (a variant that puts the batched modification before the batched creation)
GetZoneRecordsCorrections_ModifyFirst(api, zone, df) ==
    [i \in 1..Len(df.toReport) |->
        [kind |-> "report", prov |-> api, zone |-> zone, recs |-> {}]]
    \o [i \in 1..Len(df.del) |->
        [kind |-> "delete", prov |-> api, zone |-> zone, recs |-> {df.del[i]}]]
    \o (IF Len(df.modify) > 0
          THEN << [kind |-> "modify", prov |-> api, zone |-> zone, recs |-> Range(df.modify)] >>
          ELSE <<>>)
    \o (IF Len(df.create) > 0
          THEN << [kind |-> "create", prov |-> api, zone |-> zone, recs |-> Range(df.create)] >>
          ELSE <<>>)

\* hetznerProvider.GetZoneRecordsCorrections: reports, one correction per deleted
\* record, one batched creation, one batched modification
GetZoneRecordsCorrections(api, zone, df) ==
    [i \in 1..Len(df.toReport) |->
        [kind |-> "report", prov |-> api, zone |-> zone, recs |-> {}]]
    \o [i \in 1..Len(df.del) |->
        [kind |-> "delete", prov |-> api, zone |-> zone, recs |-> {df.del[i]}]]
    \o (IF Len(df.create) > 0
          THEN << [kind |-> "create", prov |-> api, zone |-> zone, recs |-> Range(df.create)] >>
          ELSE <<>>)
    \o (IF Len(df.modify) > 0
          THEN << [kind |-> "modify", prov |-> api, zone |-> zone, recs |-> Range(df.modify)] >>
          ELSE <<>>)

\* zonerecs.CorrectZoneRecords: the driver's corrections for dc against the
\* zone's live records, reports split off
CorrectZoneRecords(p, dc, lv) ==
    LET all == GetZoneRecordsCorrections(p, dc.Name,
                   IncrementalDiff(Range(dc.Records), lv[p][dc.Name]))
    IN  [ reports     |-> SelectSeq(all, LAMBDA c : c.kind = "report"),
          corrections |-> SelectSeq(all, LAMBDA c : c.kind # "report") ]

\* (a variant that ignores no provider)
SkipProvider_Never(p, ignored) == FALSE

\* the loop condition of getCorrections
SkipProvider(p, ignored) == p \in ignored

\* certManager.getCorrections: corrections of every attached provider that is
\* not ignored, in attachment order
RECURSIVE getCorrectionsFrom(_, _, _, _)
getCorrectionsFrom(d, lv, ignored, i) ==
    IF i > Len(d.DNSProviderInstances) THEN <<>>
    ELSE LET p == d.DNSProviderInstances[i]
         IN  IF SkipProvider(p, ignored)
               THEN getCorrectionsFrom(d, lv, ignored, i + 1)
               ELSE LET dc == Copy(d)
                        cs == CorrectZoneRecords(p, dc, lv).corrections
                    IN  cs \o getCorrectionsFrom(d, lv, ignored, i + 1)

getCorrections(d, lv, ignored) == getCorrectionsFrom(d, lv, ignored, 1)

\* corr.F(): what executing a correction does to the live records
ApplyCorrection(lv, c) ==
    LET old == lv[c.prov][c.zone]
        new == CASE c.kind = "delete" -> old \ c.recs
                 [] c.kind = "create" -> old \cup c.recs
                 [] c.kind = "modify" ->
                      { e \in old : ~ \E r \in c.recs : Key(r) = Key(e) } \cup c.recs
                 [] OTHER -> old
    IN  [lv EXCEPT ![c.prov][c.zone] = new]

\* A batch's fate: at = 0 (or beyond the batch) no failure; otherwise the
\* at-th correction fails ("corr"), or succeeds and its notification fails
\* ("notify"), or both fail ("both").
NoFail == [at |-> 0, kind |-> "corr"]
\* a failing getCorrections (d.Copy or the provider's read fails)
GetFails == [at |-> 0, kind |-> "get"]
Fates == {NoFail, GetFails} \cup [at : 1..MaxFailAt, kind : {"corr", "notify", "both"}]

\* (a variant that looks at the notifier's error first)
StepError_NotifierFirst(err, err2) == IF err2 # NoErr THEN err2 ELSE err

\* getAndRunCorrections, lines 302-307: the error that ends the loop, if any
StepError(err, err2) == IF err # NoErr THEN err ELSE err2

\* certManager.getAndRunCorrections, lines 298-308: run cs from the i-th on;
\* trace holds, for every correction whose F was called, what F and the
\* notifier returned
RECURSIVE runFrom(_, _, _, _, _, _)
runFrom(lv, cs, i, fate, zone, trace) ==
    IF i > Len(cs)
      THEN [live |-> lv, err |-> NoErr, ran |-> i - 1, notified |-> i - 1, trace |-> trace]
      ELSE LET hit  == i = fate.at
               err  == IF hit /\ fate.kind \in {"corr", "both"}
                         THEN <<"correction", zone>> ELSE NoErr
               err2 == IF hit /\ fate.kind \in {"notify", "both"}
                         THEN <<"notify", zone>> ELSE NoErr
               lv2  == IF err = NoErr THEN ApplyCorrection(lv, cs[i]) ELSE lv
               tr2  == Append(trace, [c |-> cs[i], err |-> err, err2 |-> err2])
           IN  IF StepError(err, err2) # NoErr
                 THEN [live |-> lv2, err |-> StepError(err, err2), ran |-> i,
                       notified |-> i, trace |-> tr2]
                 ELSE runFrom(lv2, cs, i + 1, fate, zone, tr2)

\* what a Present that ran no correction reports of its batch
NoRun == [ran |-> 0, trace |-> <<>>, batch |-> <<>>]

\* certManager.getAndRunCorrections; batch is what getCorrections returned
getAndRunCorrections(d, lv, ignored, fate) ==
    IF fate.kind = "get"
      THEN [live |-> lv, err |-> <<"get", d.Name>>, notified |-> 0] @@ NoRun
      ELSE LET cs == getCorrections(d, lv, ignored)
           IN  runFrom(lv, cs, 1, fate, d.Name, <<>>) @@ [batch |-> cs]

\* ------------------------------------------------------------------ decision logic
\* A stored certificate: its DNS names and the time left until NotAfter, in
\* half days; serial tells one issued artifact from another.
NoCert  == [kind |-> "none", names |-> <<>>, left |-> 0, serial |-> 0]
BadCert == [kind |-> "bad",  names |-> <<>>, left |-> 0, serial |-> 0]

\* getCertInfo: the DNS names of a stored certificate and the time until
\* NotAfter (in half days; the code's float keeps the fraction)
getCertInfo(cert) ==
    IF cert.kind = "bad"
      THEN [names |-> <<>>, daysLeft |-> 0, err |-> <<"parse">>]
      ELSE [names |-> cert.names, daysLeft |-> cert.left, err |-> NoErr]

\* sort.Strings: insertion of x into a sorted sequence
RECURSIVE InsertSorted(_, _)
InsertSorted(x, s) ==
    IF s = <<>> THEN <<x>>
    ELSE IF Rank(x) <= Rank(Head(s)) THEN <<x>> \o s
    ELSE <<Head(s)>> \o InsertSorted(x, Tail(s))

RECURSIVE SortStrings(_)
SortStrings(s) == IF s = <<>> THEN <<>> ELSE InsertSorted(Head(s), SortStrings(Tail(s)))

\* (a variant that compares the lists as they come)
dnsNamesEqual_Unsorted(a, b) ==
    IF Len(a) # Len(b)
      THEN [eq |-> FALSE, a |-> a, b |-> b]
      ELSE [eq |-> \A i \in 1..Len(a) : b[i] = a[i], a |-> a, b |-> b]

\* dnsNamesEqual: the verdict, and the two slices as the call leaves them
\* (both are sorted in place once the lengths agree)
dnsNamesEqual(a, b) ==
    IF Len(a) # Len(b)
      THEN [eq |-> FALSE, a |-> a, b |-> b]
      ELSE LET sa == SortStrings(a)
               sb == SortStrings(b)
           IN  [eq |-> \A i \in 1..Len(sa) : sb[i] = sa[i], a |-> sa, b |-> sb]

\* IssueOrRenewCert, line 135: nothing to do
NothingToDo(daysLeft, renewUnder, namesOK) ==
    daysLeft >= renewUnder * DayUnits /\ namesOK

\* (a variant that looks at the validity before the names)
SelectAction_ValidityFirst(existing, daysLeft, renewUnder, namesOK) ==
    IF existing.kind = "none" THEN "Obtain"
    ELSE IF NothingToDo(daysLeft, renewUnder, namesOK) THEN "noop"
    ELSE IF daysLeft < renewUnder * DayUnits THEN "Renew"
    ELSE "Obtain"

\* IssueOrRenewCert, lines 118-148: the action the call settles on
SelectAction(existing, daysLeft, renewUnder, namesOK) ==
    IF existing.kind = "none" THEN "Obtain"
    ELSE IF NothingToDo(daysLeft, renewUnder, namesOK) THEN "noop"
    ELSE IF ~ namesOK THEN "Obtain"
    ELSE "Renew"

\* IssueOrRenewCert, lines 119-123: the request the closure hands to the transport
ObtainRequest(c) ==
    [op |-> "Obtain", Bundle |-> TRUE, Domains |-> c.Names, MustStaple |-> c.MustStaple]
\* (a variant that does not force the renewal)
RenewRequest_Unforced(c, existing) ==
    [op |-> "Renew", cert |-> existing, force |-> FALSE, MustStaple |-> c.MustStaple,
     preferredChain |-> ""]

\* IssueOrRenewCert, line 145: the renewal the closure asks of the transport
RenewRequest(c, existing) ==
    [op |-> "Renew", cert |-> existing, force |-> TRUE, MustStaple |-> c.MustStaple,
     preferredChain |-> ""]

\* (a variant that reports a failed store as no change)
ReturnOfAction_StoreFailureUnchanged(actionErr, storeErr) ==
    IF actionErr # NoErr THEN [changed |-> FALSE, err |-> actionErr]
    ELSE IF storeErr # NoErr THEN [changed |-> FALSE, err |-> storeErr]
    ELSE [changed |-> TRUE, err |-> NoErr]

\* IssueOrRenewCert, lines 165-174: what the call returns after action()
ReturnOfAction(actionErr, storeErr) ==
    IF actionErr # NoErr THEN [changed |-> FALSE, err |-> actionErr]
    ELSE IF storeErr # NoErr THEN [changed |-> TRUE, err |-> storeErr]
    ELSE [changed |-> TRUE, err |-> NoErr]

\* (a variant that hands a cleanup error to the caller of a call that had none)
DeferredReturn_Surfaced(r, cleanupError) ==
    IF r.err = NoErr /\ cleanupError # NoErr THEN [r EXCEPT !.err = cleanupError] ELSE r

\* IssueOrRenewCert, line 108: the deferred finalCleanUp's error is dropped,
\* the call returns what its return statement said
DeferredReturn(r, cleanupError) == r

\* ------------------------------------------------------------------ challenge provider
\* (a variant that never finds the zone in the map)
Seen_Never(doms, name) == FALSE

\* Present, line 208: the zone has been prepared before
Seen(doms, name) == name \in DOMAIN doms

\* (a variant that lets issuance through the check)
ensureNoPendingCorrections_Forced(cs, name) == NoErr

\* ensureNoPendingCorrections, lines 254-261
ensureNoPendingCorrections(cs, name) ==
    IF Len(cs) # 0 THEN <<"pending", name, Len(cs)>> ELSE NoErr

\* Present, lines 216-221: nameservers and NS records are set on d itself
FixNameservers(d) == AddNSRecords([d EXCEPT !.Nameservers = DetermineNameservers(d)])

\* Present, line 245
AppendTXT(d, txt) == [d EXCEPT !.Records = Append(d.Records, txt)]

\* (a variant in which d still points at the caller's configuration)
WriteThrough_Original(st, name, d2) ==
    [st EXCEPT !.domains = [st.domains EXCEPT ![name] = d2],
               !.cfgDomains = [st.cfgDomains EXCEPT ![name] = d2]]

\* Present, lines 210 and 236: d points at the working copy kept in the map,
\* so what is written to d lands there
WriteThrough(st, name, d2) == [st EXCEPT !.domains = [st.domains EXCEPT ![name] = d2]]

\* Present, lines 239-246, on the configuration d of zone name kept in the map
\* (SetTargetTXT does not fail on the digest dns01.GetRecord returns)
Publish(st, name, d, n, k, fate) ==
    LET d2 == AppendTXT(d, TXTRec(n, k))
        r  == getAndRunCorrections(d2, st.live, st.ignored, fate)
    IN  [WriteThrough(st, name, d2) EXCEPT !.live = r.live]
        @@ [err |-> r.err, ran |-> r.ran, trace |-> r.trace, batch |-> r.batch,
            checked |-> FALSE]

\* certManager.Present for name n and key authorization k. st holds the manager's
\* cfgDomains, domains, originalDomains, the live records and the ignore list;
\* fault names the collaborator that fails, fate the fate of the corrections.
Present(st, n, k, fault, fate) ==
    LET name == DomainContainingFQDN(n)
        d    == st.cfgDomains[name]
    IN  IF Seen(st.domains, name)
          THEN Publish(st, name, st.domains[name], n, k, fate)
        ELSE IF fault = "ns"
          THEN st @@ [err |-> <<"nameservers">>, checked |-> FALSE] @@ NoRun
        ELSE LET d1  == FixNameservers(d)
                 st1 == [st EXCEPT !.cfgDomains = [st.cfgDomains EXCEPT ![name] = d1]]
                 e   == IF fault = "get" THEN <<"get", name>>
                        ELSE ensureNoPendingCorrections(
                                 getCorrections(d1, st.live, st.ignored), name)
             IN  IF e # NoErr
                   THEN st1 @@ [err |-> e, checked |-> FALSE] @@ NoRun
                 ELSE IF fault = "copy"
                   THEN st1 @@ [err |-> <<"copy">>, checked |-> TRUE] @@ NoRun
                 ELSE LET cpy == Copy(d1)
                          st2 == [st1 EXCEPT
                                    !.originalDomains = Append(st1.originalDomains, name),
                                    !.domains = (name :> cpy) @@ st1.domains]
                          r   == Publish(st2, name, cpy, n, k, fate)
                      IN  [r EXCEPT !.checked = TRUE]

\* (a variant that takes the name's validation record away at once)
CleanUp_Eager(st, n, k) ==
    LET z == DomainContainingFQDN(n)
        gone(recs) == SelectSeq(recs, LAMBDA r : r # TXTRec(n, k))
    IN  [st EXCEPT !.domains = [y \in DOMAIN st.domains |->
                                  IF y = z THEN [st.domains[y] EXCEPT !.Records = gone(@)]
                                  ELSE st.domains[y]],
                   !.live = [p \in Providers |->
                                  [st.live[p] EXCEPT ![z] = @ \ {TXTRec(n, k)}]]]
        @@ [err |-> NoErr]

\* certManager.CleanUp
CleanUp(st, n, k) == st @@ [err |-> NoErr]

\* (a variant that keeps the first error it met)
NextLastError_First(lastError, err) ==
    IF lastError # NoErr THEN lastError ELSE IF err # NoErr THEN err ELSE lastError

\* finalCleanUp, lines 321-324: lastError after a zone whose cleanup returned err
NextLastError(lastError, err) == IF err # NoErr THEN err ELSE lastError

\* certManager.finalCleanUp, lines 320-325, from the i-th recorded zone on;
\* passes are the zones reconciled and errs what each returned (line 322 logs it)
RECURSIVE finalCleanUpFrom(_, _, _, _, _, _, _)
finalCleanUpFrom(st, fates, i, lastError, ran, passes, errs) ==
    IF i > Len(st.originalDomains)
      THEN st @@ [err |-> lastError, ran |-> ran, passes |-> passes, errs |-> errs]
      ELSE LET name == st.originalDomains[i]
               r == getAndRunCorrections(st.cfgDomains[name], st.live, st.ignored, fates[i])
           IN  finalCleanUpFrom([st EXCEPT !.live = r.live], fates, i + 1,
                                NextLastError(lastError, r.err),
                                ran + r.ran, Append(passes, name), Append(errs, r.err))

finalCleanUp(st, fates) == finalCleanUpFrom(st, fates, 1, NoErr, 0, <<>>, <<>>)

\* ------------------------------------------------------------------ state
VARIABLES
    cfgDomains,        \* cfg.Domains: the caller's DomainConfig of every zone
    domains,           \* c.domains: zone name -> working copy
    originalDomains,   \* c.originalDomains: the zones (pointers into cfg) prepared
    live,              \* provider -> zone -> the records the provider serves
    IgnoredProviders,  \* the package's ignore list
    storage,           \* c.storage: certificate name -> stored certificate
    pc,                \* "idle", or "acting" while the transport runs action()
    cfg,               \* the CertConfig the last call was given (by pointer)
    action,            \* the closure the call selected: "Obtain" or "Renew"
    existing,          \* the certificate the call read from storage
    tried,             \* how many names the transport has called Present for in this call
    presented,         \* the names whose Present returned nil in this call
    cleaned,           \* how many of them the transport has called CleanUp for
    ncalls,            \* IssueOrRenewCert calls begun
    ndrift,            \* drift events so far
    call,              \* what the last call was given and what it read
    outcome,           \* how action() and StoreCertificate of the last call ended
    calls,             \* Obtain/Renew invocations of the last call
    ret,               \* what the last call returned
    cleanupErr,        \* what the last call's finalCleanUp returned
    cleanupLog,        \* what the cleanup of each zone returned in that finalCleanUp, in order
    execd,             \* corrections executed during the last call
    checked,           \* zones whose drift check ran clean during the last call
    published,         \* zones that got a validation record published during the last call
    created,           \* zones a working copy was made of during the last call, in order
    passed,            \* zones the last call's finalCleanUp reconciled, in order
    presentRet,        \* the last Present of the running call: name, zone, error, effects
    \* concurrent Present calls (goroutines of the transport)
    tpc,               \* goroutine -> the line of Present it stands before
    dptr,              \* goroutine -> what its d points at: "orig" or a working copy
    obj,               \* working copies on the heap, named by the goroutine that made them
    mapPtr,            \* the working copy c.domains["z1"] points at
    mapBusy,           \* goroutines in the middle of writing c.domains
    tlocal,            \* goroutine -> the slice it read and is about to append to
    tret,              \* goroutine -> what its Present returned
    \* a function of the package applied on its own
    fnIn,              \* the arguments it is given
    fnOut              \* what it returned

mgrVars == <<cfgDomains, domains, originalDomains, live, IgnoredProviders>>
callVars == <<pc, cfg, action, existing, tried, presented, cleaned>>
obsVars == <<call, outcome, calls, ret, cleanupErr, cleanupLog, execd, checked, published, created, passed,
             presentRet>>
concVars == <<tpc, dptr, obj, mapPtr, mapBusy, tlocal, tret>>
pureVars == <<fnIn, fnOut>>
progVars == <<mgrVars, storage, callVars, ncalls, ndrift, obsVars, concVars>>
vars == <<progVars, pureVars>>

Mgr == [cfgDomains |-> cfgDomains, domains |-> domains,
        originalDomains |-> originalDomains, live |-> live, ignored |-> IgnoredProviders]

\* the requests a caller makes
Requests ==
    { [CertName |-> "c1", Names |-> <<"a.z1">>,         UseECC |-> FALSE, MustStaple |-> FALSE],
      [CertName |-> "c1", Names |-> <<"b.z1", "a.z1">>, UseECC |-> TRUE,  MustStaple |-> TRUE],
      [CertName |-> "c2", Names |-> <<"a.z1", "a.z2">>, UseECC |-> FALSE, MustStaple |-> FALSE] }

NoRequest == [CertName |-> "", Names |-> <<>>, UseECC |-> FALSE, MustStaple |-> FALSE]
NoReturn  == [changed |-> FALSE, err |-> <<"none">>]
NoPresent == [n |-> "", name |-> "", fault |-> "", err |-> <<"none">>] @@ NoRun
NoCall    == [req |-> NoRequest, renewUnder |-> 0, fault |-> "", existing |-> NoCert,
              daysLeft |-> 0]
NoOutcome == [action |-> <<"none">>, store |-> <<"none">>]

Threads == {"t1", "t2"}
NoThreads == /\ tpc = [t \in Threads |-> "off"]
             /\ dptr = [t \in Threads |-> "orig"]
             /\ obj = [t \in {} |-> 0]
             /\ mapPtr = "none"
             /\ mapBusy = {}
             /\ tlocal = [t \in Threads |-> <<>>]
             /\ tret = [t \in Threads |-> <<"none">>]

InitZone(z) == [Name |-> z, Nameservers |-> <<>>, Records |-> <<ARec("v1")>>,
                DNSProviderInstances |-> <<"p1">>]

\* a new certManager (commonNew) that has made no call
InitCalls ==
    /\ domains = [z \in {} |-> InitZone(z)]
    /\ originalDomains = <<>>
    /\ storage = [c \in CertNames |-> NoCert]
    /\ pc = "idle" /\ cfg = NoRequest /\ action = "" /\ existing = NoCert
    /\ tried = 0 /\ presented = <<>> /\ cleaned = 0
    /\ ncalls = 0 /\ ndrift = 0
    /\ call = NoCall /\ outcome = NoOutcome
    /\ calls = <<>> /\ ret = NoReturn /\ cleanupErr = NoErr /\ cleanupLog = <<>>
    /\ execd = 0
    /\ checked = {} /\ published = {} /\ created = <<>> /\ passed = <<>>
    /\ presentRet = NoPresent

\* ... for zones of one provider each, nothing ignored
InitManager ==
    /\ cfgDomains = [z \in Zones |-> InitZone(z)]
    /\ IgnoredProviders = {}
    /\ InitCalls

InSync == [p \in Providers |-> [z \in Zones |-> {ARec("v1"), NSRec("ns1")}]]

NoArgs == [none |-> TRUE]
NoResult == [none |-> TRUE]
NoPure == fnIn = NoArgs /\ fnOut = NoResult

Init ==
    /\ InitManager
    /\ live = InSync
    /\ NoThreads
    /\ NoPure

\* the deferred finalCleanUp of a returning call: its effects on the manager
\* and on what the call is seen to have done
ReturnWith(r, fates, ranSoFar) ==
    \E f \in {finalCleanUp(Mgr, fates)} :
        /\ live' = f.live
        /\ cleanupErr' = f.err
        /\ cleanupLog' = f.errs
        /\ execd' = ranSoFar + f.ran
        /\ passed' = f.passes
        /\ ret' = DeferredReturn(r, f.err)
        /\ pc' = "idle"
        /\ action' = "" /\ existing' = NoCert
        /\ tried' = 0 /\ presented' = <<>> /\ cleaned' = 0
        /\ presentRet' = NoPresent
        /\ UNCHANGED <<cfgDomains, domains, originalDomains, IgnoredProviders>>

\* IssueOrRenewCert, lines 104-163: up to the call of action(), or to an early return.
\* fault: the store cannot be read, the stored bytes are no certificate, or
\* the transport cannot be set up.
IssueBegin(rq, ru, fault) ==
    /\ pc = "idle" /\ ncalls < MaxCalls
    /\ fault = "parse" => storage[rq.CertName].kind = "cert"
    /\ LET ex   == IF fault = "read" THEN NoCert
                   ELSE IF fault = "parse" THEN BadCert ELSE storage[rq.CertName]
           info == getCertInfo(ex)
           parsed == ex.kind = "cert"
           eqr  == dnsNamesEqual(rq.Names, info.names)
           c    == IF parsed THEN [rq EXCEPT !.Names = eqr.a] ELSE rq
           sel  == SelectAction(ex, info.daysLeft, ru, eqr.eq)
           early == fault = "read" \/ info.err # NoErr \/ sel = "noop" \/ fault = "client"
           r    == IF fault = "read" THEN [changed |-> FALSE, err |-> <<"store-read">>]
                   ELSE IF info.err # NoErr THEN [changed |-> FALSE, err |-> info.err]
                   ELSE IF sel = "noop" THEN [changed |-> FALSE, err |-> NoErr]
                   ELSE [changed |-> FALSE, err |-> <<"client">>]
       IN  /\ ncalls' = ncalls + 1
           /\ cfg' = c
           /\ call' = [req |-> rq, renewUnder |-> ru, fault |-> fault, existing |-> ex,
                       daysLeft |-> info.daysLeft]
           /\ outcome' = NoOutcome
           /\ checked' = {} /\ published' = {} /\ created' = <<>>
           /\ IF early
                THEN /\ \E fates \in [1..Len(originalDomains) -> Fates] : ReturnWith(r, fates, 0)
                     /\ calls' = <<>>
                ELSE /\ pc' = "acting"
                     /\ action' = sel
                     /\ existing' = ex
                     /\ calls' = << IF sel = "Renew" THEN RenewRequest(c, ex)
                                                     ELSE ObtainRequest(c) >>
                     /\ ret' = NoReturn /\ cleanupErr' = NoErr /\ cleanupLog' = <<>>
                     /\ execd' = 0
                     /\ passed' = <<>>
                     /\ UNCHANGED <<mgrVars, tried, presented, cleaned, presentRet>>
    /\ UNCHANGED <<storage, ndrift, concVars, pureVars>>

\* the names the transport has to validate for the running action, in the
\* order it takes them
NamesToValidate == IF action = "Renew" THEN existing.names ELSE cfg.Names

NewTXT(lv, lv2, z) == \E p \in Providers : \E r \in lv2[p][z] \ lv[p][z] : IsTXT(r)

\* the transport calls Present for the next name of the request; one
\* collaborator at most fails
TransportPresent(fault, fate) ==
    /\ pc = "acting" /\ tried < Len(NamesToValidate)
    /\ fault # "none" =>
          fate = NoFail /\ ~ Seen(domains, DomainContainingFQDN(NamesToValidate[tried + 1]))
    /\ LET n == NamesToValidate[tried + 1]
           name == DomainContainingFQDN(n)
       IN  \E r \in {Present(Mgr, n, ncalls, fault, fate)} :
           /\ cfgDomains' = r.cfgDomains
           /\ domains' = r.domains
           /\ originalDomains' = r.originalDomains
           /\ live' = r.live
           /\ tried' = tried + 1
           /\ presented' = IF r.err = NoErr THEN Append(presented, n) ELSE presented
           /\ execd' = execd + r.ran
           /\ checked' = IF r.checked THEN checked \cup {name} ELSE checked
           /\ published' = IF NewTXT(live, r.live, name) THEN published \cup {name}
                           ELSE published
           /\ created' = created \o SubSeq(r.originalDomains, Len(originalDomains) + 1,
                                           Len(r.originalDomains))
           /\ presentRet' = [n |-> n, name |-> name, fault |-> fault, err |-> r.err,
                             ran |-> r.ran, trace |-> r.trace, batch |-> r.batch]
    /\ UNCHANGED <<IgnoredProviders, storage, pc, cfg, action, existing, cleaned,
                   ncalls, ndrift, call, outcome, calls, ret, cleanupErr, cleanupLog, passed,
                   concVars, pureVars>>

\* once every name has been tried the transport calls CleanUp for the names
\* it presented
TransportCleanUp ==
    /\ pc = "acting" /\ tried = Len(NamesToValidate) /\ cleaned < Len(presented)
    /\ LET r == CleanUp(Mgr, presented[cleaned + 1], ncalls)
       IN  /\ cfgDomains' = r.cfgDomains
           /\ domains' = r.domains
           /\ originalDomains' = r.originalDomains
           /\ live' = r.live
    /\ cleaned' = cleaned + 1
    /\ UNCHANGED <<IgnoredProviders, storage, pc, cfg, action, existing, tried,
                   presented, ncalls, ndrift, obsVars, concVars, pureVars>>

\* IssueOrRenewCert, lines 165-174 and the deferred finalCleanUp: action()
\* returns (with an error before any challenge, or after the challenges),
\* the certificate is stored, the call returns
IssueFinish(actionOK, storeOK, fates) ==
    /\ pc = "acting"
    /\ tried = 0 \/ (tried = Len(NamesToValidate) /\ cleaned = Len(presented))
    /\ actionOK => tried = Len(NamesToValidate) /\ Len(presented) = Len(NamesToValidate)
    /\ ~ actionOK => storeOK
    /\ LET cert == [kind |-> "cert",
                    names |-> IF action = "Renew" THEN existing.names ELSE cfg.Names,
                    left |-> CertLife, serial |-> ncalls]
           actionErr == IF actionOK THEN NoErr ELSE <<"protocol">>
           storeErr  == IF ~ actionOK THEN <<"none">>
                        ELSE IF storeOK THEN NoErr ELSE <<"store-write">>
       IN  /\ storage' = IF actionOK /\ storeOK
                           THEN [storage EXCEPT ![cfg.CertName] = cert] ELSE storage
           /\ outcome' = [action |-> actionErr, store |-> storeErr]
           /\ ReturnWith(ReturnOfAction(actionErr, storeErr), fates, execd)
    /\ UNCHANGED <<cfg, ncalls, ndrift, call, calls, checked, published, created,
                   concVars, pureVars>>

\* half a day passes between calls: every stored certificate is nearer its end
Tick ==
    /\ pc = "idle" /\ ncalls < MaxCalls
    /\ \E c \in CertNames : storage[c].kind = "cert" /\ storage[c].left > 0
    /\ storage' = [c \in CertNames |->
                     IF storage[c].kind = "cert" /\ storage[c].left > 0
                       THEN [storage[c] EXCEPT !.left = @ - 1] ELSE storage[c]]
    /\ UNCHANGED <<mgrVars, callVars, ncalls, ndrift, obsVars, concVars, pureVars>>

\* between calls somebody adds a record to a zone at its provider
Drift(p, z) ==
    /\ pc = "idle" /\ ndrift < MaxDrift /\ ncalls < MaxCalls
    /\ ndrift' = ndrift + 1
    /\ live' = [live EXCEPT ![p][z] = @ \cup {ForeignRec}]
    /\ UNCHANGED <<cfgDomains, domains, originalDomains, IgnoredProviders, storage,
                   callVars, ncalls, obsVars, concVars, pureVars>>

Step ==
    \/ \E rq \in Requests, ru \in RenewUnders, fault \in {"none", "read", "parse", "client"} :
          IssueBegin(rq, ru, fault)
    \/ \E fault \in {"none", "ns", "get", "copy"}, fate \in Fates :
          TransportPresent(fault, fate)
    \/ TransportCleanUp
    \/ \E actionOK \in BOOLEAN, storeOK \in BOOLEAN :
          \E fates \in [1..Len(originalDomains) -> Fates] : IssueFinish(actionOK, storeOK, fates)
    \/ Tick
    \/ \E z \in Zones : Drift("p1", z)

Next == Step

Spec == Init /\ [][Next]_vars

\* ------------------------------------------------------------------ ignored providers
\* One call on a certManager whose zones have two providers attached, with any
\* ignore list, the second provider in step with the configuration or not.
InitZone2(z) == [InitZone(z) EXCEPT !.DNSProviderInstances = <<"p1", "p2">>]

InitIgn ==
    /\ cfgDomains = [z \in Zones |-> InitZone2(z)]
    /\ IgnoredProviders \in SUBSET Providers
    /\ InitCalls
    /\ live \in { InSync, [InSync EXCEPT !["p2"]["z1"] = @ \cup {ForeignRec}] }
    /\ NoThreads
    /\ NoPure

\* the one call
IssueOnce(rq, ru, fault) == ncalls = 0 /\ IssueBegin(rq, ru, fault)

NextIgn ==
    \/ \E rq \in Requests, ru \in RenewUnders, fault \in {"none", "read", "parse", "client"} :
          IssueOnce(rq, ru, fault)
    \/ \E fault \in {"none", "ns", "get", "copy"}, fate \in Fates :
          TransportPresent(fault, fate)
    \/ TransportCleanUp
    \/ \E actionOK \in BOOLEAN, storeOK \in BOOLEAN :
          \E fates \in [1..Len(originalDomains) -> Fates] : IssueFinish(actionOK, storeOK, fates)
    \/ Tick
    \/ \E z \in Zones : Drift("p1", z)

SpecIgn == InitIgn /\ [][NextIgn]_vars

\* ------------------------------------------------------------------ concurrent Present
\* The transport runs Present for two names of zone z1 in two goroutines; the
\* certManager takes no lock. Each action is one line (or one memory access
\* of a line) of Present.
CZone == "z1"
TName(t) == IF t = "t1" THEN "a.z1" ELSE "b.z1"
CKey == "k1"

\* c.domains as the map shows it: the zone's entry is the object it points at
MapOf(ptr, heap) == IF ptr = "none" THEN [z \in {} |-> InitZone(z)]
                    ELSE (CZone :> heap[ptr])

InitConc ==
    /\ InitManager
    /\ live \in { InSync, [InSync EXCEPT !["p1"][CZone] = @ \cup {ForeignRec}] }
    /\ tpc = [t \in Threads |-> "lookup"]
    /\ dptr = [t \in Threads |-> "orig"]
    /\ obj = [t \in {} |-> 0]
    /\ mapPtr = "none"
    /\ mapBusy = {}
    /\ tlocal = [t \in Threads |-> <<>>]
    /\ tret = [t \in Threads |-> <<"none">>]
    /\ NoPure

seqVars == <<pureVars, IgnoredProviders, storage, callVars, ncalls, ndrift, call, outcome, calls, ret,
             cleanupErr, cleanupLog, execd, checked, published, passed, presentRet>>

\* Present, lines 206-211: look the zone up in c.domains
TLookup(t) ==
    /\ tpc[t] = "lookup"
    /\ IF Seen(domains, CZone)
         THEN /\ dptr' = [dptr EXCEPT ![t] = mapPtr]
              /\ tpc' = [tpc EXCEPT ![t] = "append_read"]
         ELSE /\ tpc' = [tpc EXCEPT ![t] = "ns"]
              /\ UNCHANGED dptr
    /\ UNCHANGED <<cfgDomains, domains, originalDomains, live, created, obj, mapPtr, mapBusy,
                   tlocal, tret, seqVars>>

\* Present, lines 216-221
TFixNameservers(t) ==
    /\ tpc[t] = "ns"
    /\ cfgDomains' = [cfgDomains EXCEPT ![CZone] = FixNameservers(@)]
    /\ tpc' = [tpc EXCEPT ![t] = "check"]
    /\ UNCHANGED <<domains, originalDomains, live, created, dptr, obj, mapPtr, mapBusy,
                   tlocal, tret, seqVars>>

\* Present, lines 225-227
TCheck(t) ==
    /\ tpc[t] = "check"
    /\ LET e == ensureNoPendingCorrections(
                    getCorrections(cfgDomains[CZone], live, IgnoredProviders), CZone)
       IN  IF e # NoErr
             THEN /\ tret' = [tret EXCEPT ![t] = e]
                  /\ tpc' = [tpc EXCEPT ![t] = "done"]
             ELSE /\ tpc' = [tpc EXCEPT ![t] = "copy"]
                  /\ UNCHANGED tret
    /\ UNCHANGED <<cfgDomains, domains, originalDomains, live, created, dptr, obj, mapPtr,
                   mapBusy, tlocal, seqVars>>

\* Present, line 230
TCopy(t) ==
    /\ tpc[t] = "copy"
    /\ obj' = (t :> Copy(cfgDomains[CZone])) @@ obj
    /\ created' = Append(created, CZone)
    /\ tpc' = [tpc EXCEPT ![t] = "orig_read"]
    /\ UNCHANGED <<cfgDomains, domains, originalDomains, live, dptr, mapPtr, mapBusy, tlocal,
                   tret, seqVars>>

\* Present, line 234: append reads the slice c.originalDomains ...
TOrigRead(t) ==
    /\ tpc[t] = "orig_read"
    /\ tlocal' = [tlocal EXCEPT ![t] = originalDomains]
    /\ tpc' = [tpc EXCEPT ![t] = "orig_write"]
    /\ UNCHANGED <<cfgDomains, domains, originalDomains, live, created, dptr, obj, mapPtr,
                   mapBusy, tret, seqVars>>

\* ... and stores the longer slice
TOrigWrite(t) ==
    /\ tpc[t] = "orig_write"
    /\ originalDomains' = Append(tlocal[t], CZone)
    /\ tpc' = [tpc EXCEPT ![t] = "map_begin"]
    /\ UNCHANGED <<cfgDomains, domains, live, created, dptr, obj, mapPtr, mapBusy, tlocal,
                   tret, seqVars>>

\* Present, line 235: the write of c.domains[name] begins ...
TMapBegin(t) ==
    /\ tpc[t] = "map_begin"
    /\ mapBusy' = mapBusy \cup {t}
    /\ tpc' = [tpc EXCEPT ![t] = "map_end"]
    /\ UNCHANGED <<cfgDomains, domains, originalDomains, live, created, dptr, obj, mapPtr,
                   tlocal, tret, seqVars>>

\* ... and ends; line 236: d = cpy
TMapEnd(t) ==
    /\ tpc[t] = "map_end"
    /\ mapBusy' = mapBusy \ {t}
    /\ mapPtr' = t
    /\ domains' = MapOf(t, obj)
    /\ dptr' = [dptr EXCEPT ![t] = t]
    /\ tpc' = [tpc EXCEPT ![t] = "append_read"]
    /\ UNCHANGED <<cfgDomains, originalDomains, live, created, obj, tlocal, tret, seqVars>>

\* the Go runtime finds the map written by one goroutine while another reads
\* or writes it, and ends the process
TMapFault(t) ==
    /\ tpc[t] \in {"lookup", "map_begin", "map_end"}
    /\ mapBusy \ {t} # {}
    /\ tpc' = [u \in Threads |-> "crashed"]
    /\ UNCHANGED <<cfgDomains, domains, originalDomains, live, created, dptr, obj, mapPtr,
                   mapBusy, tlocal, tret, seqVars>>

\* Present, line 245: append reads d.Records ...
TAppendRead(t) ==
    /\ tpc[t] = "append_read"
    /\ tlocal' = [tlocal EXCEPT ![t] = obj[dptr[t]].Records]
    /\ tpc' = [tpc EXCEPT ![t] = "append_write"]
    /\ UNCHANGED <<cfgDomains, domains, originalDomains, live, created, dptr, obj, mapPtr,
                   mapBusy, tret, seqVars>>

\* ... and stores the longer slice in d.Records
TAppendWrite(t) ==
    /\ tpc[t] = "append_write"
    /\ LET heap == [obj EXCEPT ![dptr[t]].Records = Append(tlocal[t], TXTRec(TName(t), CKey))]
       IN  /\ obj' = heap
           /\ domains' = MapOf(mapPtr, heap)
    /\ tpc' = [tpc EXCEPT ![t] = "run"]
    /\ UNCHANGED <<cfgDomains, originalDomains, live, created, dptr, mapPtr, mapBusy, tlocal,
                   tret, seqVars>>

\* Present, line 246
TRun(t) ==
    /\ tpc[t] = "run"
    /\ LET r == getAndRunCorrections(obj[dptr[t]], live, IgnoredProviders, NoFail)
       IN  /\ live' = r.live
           /\ tret' = [tret EXCEPT ![t] = r.err]
    /\ tpc' = [tpc EXCEPT ![t] = "done"]
    /\ UNCHANGED <<cfgDomains, domains, originalDomains, created, dptr, obj, mapPtr, mapBusy,
                   tlocal, seqVars>>

NextConc ==
    \E t \in Threads :
        \/ TLookup(t)
        \/ TFixNameservers(t)
        \/ TCheck(t)
        \/ TCopy(t)
        \/ TOrigRead(t)
        \/ TOrigWrite(t)
        \/ TMapBegin(t)
        \/ TMapEnd(t)
        \/ TMapFault(t)
        \/ TAppendRead(t)
        \/ TAppendWrite(t)
        \/ TRun(t)

SpecConc == InitConc /\ [][NextConc]_vars

\* ------------------------------------------------------------------ dnsNamesEqual on its own
\* every list of at most MaxNames names, repetitions included
NameLists == UNION { [1..n -> Range(NameOrder)] : n \in 0..MaxNames }

InitNames ==
    /\ InitManager
    /\ live = InSync
    /\ NoThreads
    /\ fnIn \in [a : NameLists, b : NameLists]
    /\ fnOut = NoResult

CallNamesEqual ==
    /\ fnOut = NoResult
    /\ fnOut' = dnsNamesEqual(fnIn.a, fnIn.b)
    /\ UNCHANGED <<progVars, fnIn>>

NextNames == CallNamesEqual

SpecNames == InitNames /\ [][NextNames]_vars

\* ------------------------------------------------------------------ the provider's corrections on their own
\* the records a diff may name
DiffPool == {ARec("v1"), <<"A", "y", "v1">>, ForeignRec}

\* lists of at most MaxDiff different records
DiffLists ==
    UNION { { q \in [1..n -> DiffPool] : \A i, j \in 1..n : i # j => q[i] # q[j] } :
            n \in 0..MaxDiff }

\* what IncrementalDiff may hand to the provider
DiffResults ==
    [toReport : {<<>>, <<"m1">>}, del : DiffLists, create : DiffLists, modify : DiffLists]

InitDiff ==
    /\ InitManager
    /\ live = InSync
    /\ NoThreads
    /\ fnIn \in DiffResults
    /\ fnOut = NoResult

\* the provider builds its list for the diff; getAndRunCorrections runs the
\* corrections of it, none failing
CallGetZoneRecordsCorrections ==
    /\ fnOut = NoResult
    /\ LET all == GetZoneRecordsCorrections("p1", "z1", fnIn)
           cs  == SelectSeq(all, LAMBDA c : c.kind # "report")
       IN  fnOut' = [all |-> all, trace |-> runFrom(live, cs, 1, NoFail, "z1", <<>>).trace]
    /\ UNCHANGED <<progVars, fnIn>>

NextDiff == CallGetZoneRecordsCorrections

SpecDiff == InitDiff /\ [][NextDiff]_vars

\* ------------------------------------------------------------------ claims
\* what the claims say of a finished call
Returned == pc = "idle" /\ ncalls > 0

\* two name lists hold the same names, each as often
SameNames(a, b) ==
    \A x \in Range(a) \cup Range(b) :
        Cardinality({ i \in 1..Len(a) : a[i] = x }) = Cardinality({ i \in 1..Len(b) : b[i] = x })

\* the stored certificate the call read
CertRead == call.fault # "read" /\ call.existing.kind = "cert"
Ample == call.daysLeft >= call.renewUnder * DayUnits
NoOpCase == CertRead /\ Ample /\ SameNames(call.req.Names, call.existing.names)

\* C1: a call that finds a certificate with remaining validity >= renewUnder and
\* the requested names returns (false, nil), calls neither Obtain nor Renew and
\* executes no correction before it returns.
C1_NoOpTouchesNothing ==
    (Returned /\ NoOpCase) =>
        /\ ret = [changed |-> FALSE, err |-> NoErr]
        /\ calls = <<>>
        /\ execd = 0

\* C2: when the stored certificate's names differ from the requested names, the
\* call never invokes Renew, whatever the remaining validity, and the action it
\* invokes (once the transport is set up) is Obtain.
C2_NameMismatchObtains ==
    (ncalls > 0 /\ CertRead /\ ~ SameNames(call.req.Names, call.existing.names)) =>
        /\ \A i \in 1..Len(calls) : calls[i].op = "Obtain"
        /\ call.fault = "none" => Len(calls) = 1

C2_Witness ==
    /\ Returned /\ CertRead /\ Ample /\ call.fault = "none"
    /\ ~ SameNames(call.req.Names, call.existing.names)
    /\ Len(calls) = 1 /\ calls[1].op = "Obtain" /\ ret.changed

\* C3: outside the no-op case the call invokes Renew(existing, force, mustStaple)
\* exactly when a certificate exists with the requested names and less than
\* renewUnder days left, and Obtain(requested names, mustStaple) otherwise; when
\* the action and the store succeed, the artifact is stored under CertName and
\* the call returns (true, nil).
RenewCase == CertRead /\ ~ Ample /\ SameNames(call.req.Names, call.existing.names)

C3_Selected ==
    (ncalls > 0 /\ call.fault = "none" /\ ~ NoOpCase) =>
        /\ Len(calls) = 1
        /\ IF RenewCase
             THEN calls[1] = [op |-> "Renew", cert |-> call.existing, force |-> TRUE,
                              MustStaple |-> call.req.MustStaple, preferredChain |-> ""]
             ELSE /\ calls[1].op = "Obtain"
                  /\ SameNames(calls[1].Domains, call.req.Names)
                  /\ calls[1].MustStaple = call.req.MustStaple

C3_Stored ==
    (pc = "acting" /\ pc' = "idle" /\ outcome'.action = NoErr /\ outcome'.store = NoErr) =>
        /\ ret' = [changed |-> TRUE, err |-> NoErr]
        /\ storage'[call.req.CertName].kind = "cert"
        /\ storage'[call.req.CertName].serial = ncalls
        /\ SameNames(storage'[call.req.CertName].names, call.req.Names)
        /\ \A c \in CertNames \ {call.req.CertName} : storage'[c] = storage[c]

C3_ActionSelection == [] C3_Selected /\ [][C3_Stored]_vars

C3_Witness ==
    /\ Returned /\ RenewCase /\ ret = [changed |-> TRUE, err |-> NoErr]
    /\ calls[1].op = "Renew" /\ storage[call.req.CertName].serial = ncalls

\* C4: changed is true exactly when the action succeeded; a store-read, parse,
\* transport or action failure returns (false, err) and stores nothing; a
\* StoreCertificate failure after a successful action returns (true, err).
C4_Returns ==
    Returned =>
        /\ ret.changed <=> outcome.action = NoErr
        /\ call.fault = "read" => ret = [changed |-> FALSE, err |-> <<"store-read">>]
        /\ call.fault = "parse" => ret = [changed |-> FALSE, err |-> <<"parse">>]
        /\ (call.fault = "client" /\ ~ NoOpCase) =>
              ret = [changed |-> FALSE, err |-> <<"client">>]
        /\ outcome.action = <<"protocol">> => ret = [changed |-> FALSE, err |-> <<"protocol">>]
        /\ outcome.store = <<"store-write">> => ret = [changed |-> TRUE, err |-> <<"store-write">>]

C4_NothingStored ==
    (pc' = "idle" /\ ncalls' > 0 /\ (pc = "acting" \/ ncalls' # ncalls)
        /\ ~ (outcome'.action = NoErr /\ outcome'.store = NoErr)) => storage' = storage

C4_ChangedIffActionSucceeded == [] C4_Returns /\ [][C4_NothingStored]_vars

C4_Witness ==
    Returned /\ outcome.store = <<"store-write">> /\ ret.changed /\ ret.err # NoErr

C6_OneCleanupPass ==
    Returned => \A z \in Zones :
        Cardinality({ i \in 1..Len(passed) : passed[i] = z })
            = Cardinality({ i \in 1..Len(created) : created[i] = z })

\* C7: during a call no validation record is published for a zone, and no
\* certificate is issued for a name of it, unless that call reconciled the
\* zone's stored configuration and found no pending correction.
C7_DriftCheckedBeforeIssuance ==
    /\ published \subseteq checked
    /\ (Returned /\ outcome.action = NoErr) =>
          \A i \in 1..Len(call.req.Names) : DomainContainingFQDN(call.req.Names[i]) \in checked

\* C8: Present for a name of an unseen zone whose stored configuration has
\* pending corrections returns an error with the zone and the count, executes
\* nothing, makes no working copy, records no original, appends no validation
\* record, and leaves the zone unseen.
PendingOf(z) == getCorrections(FixNameservers(cfgDomains[z]), live, IgnoredProviders)

C8_Step ==
    (pc = "acting" /\ tried' = tried + 1) =>
        LET z == presentRet'.name
        IN  (~ Seen(domains, z) /\ presentRet'.fault \notin {"ns", "get"}
                /\ Len(PendingOf(z)) > 0) =>
              /\ presentRet'.err = <<"pending", z, Len(PendingOf(z))>>
              /\ presentRet'.ran = 0 /\ execd' = execd
              /\ live' = live
              /\ domains' = domains /\ ~ Seen(domains', z)
              /\ originalDomains' = originalDomains
              /\ \A i \in 1..Len(cfgDomains'[z].Records) : ~ IsTXT(cfgDomains'[z].Records[i])
              /\ presented' = presented

C8_PendingDriftAborts == [][C8_Step]_vars

C8_Witness ==
    /\ pc = "acting" /\ presentRet.err = <<"pending", "z1", 1>>
    /\ ~ Seen(domains, "z1") /\ originalDomains = <<>>

\* C9 as claimed: the caller's DomainConfig of a zone (nameservers and records)
\* is never changed.
C9_OriginalUntouched ==
    \A z \in Zones : cfgDomains[z] = InitZone(z)

\* C9 as amended: the caller's DomainConfig never receives a validation record
\* and keeps every record it had; Present changes it only by setting its
\* nameserver list and appending the NS records of those nameservers.
IsNS(r) == r[1] = "NS"
C9_OriginalKeepsRecords ==
    \A z \in Zones :
        /\ \A i \in 1..Len(cfgDomains[z].Records) : ~ IsTXT(cfgDomains[z].Records[i])
        /\ SelectSeq(cfgDomains[z].Records, LAMBDA r : ~ IsNS(r)) = InitZone(z).Records
        /\ cfgDomains[z].Name = z
        /\ cfgDomains[z].DNSProviderInstances = InitZone(z).DNSProviderInstances
        /\ Seen(domains, z) =>
              SelectSeq(domains[z].Records, LAMBDA r : ~ IsTXT(r)) = cfgDomains[z].Records

C9_Witness ==
    /\ Seen(domains, "z1")
    /\ \E i \in 1..Len(domains["z1"].Records) : IsTXT(domains["z1"].Records[i])
    /\ cfgDomains["z1"].Records = <<ARec("v1"), NSRec("ns1")>>
    /\ pc = "idle"

\* C10: two concurrent Present calls for two names of one unseen zone make
\* exactly one working copy (one deep copy, one entry of originalDomains), and
\* when both have returned the working copy holds both validation records.
BothReturned == \A t \in Threads : tpc[t] = "done" /\ tret[t] = NoErr

C10_OneWorkingCopy ==
    BothReturned =>
        /\ Len(created) = 1
        /\ Len(originalDomains) = 1
        /\ \A t \in Threads : TXTRec(TName(t), CKey) \in Range(domains[CZone].Records)

\* C11: in every state of a certManager used by one caller at a time, each zone
\* is in originalDomains at most once, and is there exactly when the domains map
\* holds a working copy of it; every step leaves the entries originalDomains had
\* in place and at most appends to them.
C11_Registered ==
    \A z \in Zones :
        /\ Cardinality({ i \in 1..Len(originalDomains) : originalDomains[i] = z }) <= 1
        /\ (z \in Range(originalDomains)) <=> (z \in DOMAIN domains)

C11_AppendOnly ==
    /\ Len(originalDomains') >= Len(originalDomains)
    /\ SubSeq(originalDomains', 1, Len(originalDomains)) = originalDomains

C11_OriginalsMatchCopies == [] C11_Registered /\ [][C11_AppendOnly]_vars

\* two zones registered in the order they were prepared, one of them by a
\* Present whose publication failed, after a final cleanup that failed as well
C11_Witness ==
    /\ Returned /\ originalDomains = <<"z1", "z2">>
    /\ DOMAIN domains = {"z1", "z2"}
    /\ outcome.action = <<"protocol">> /\ cleanupErr # NoErr

\* C12: finalCleanUp reconciles every zone of originalDomains, in the recorded
\* order, whether or not an earlier zone failed; it returns nil when no zone
\* failed and otherwise the error of the last zone in the list that failed.
FailedZones == { i \in 1..Len(cleanupLog) : cleanupLog[i] # NoErr }
LastOf(S) == CHOOSE i \in S : \A j \in S : j <= i

C12_CleanupIsBestEffort ==
    Returned =>
        /\ passed = originalDomains
        /\ Len(cleanupLog) = Len(originalDomains)
        /\ cleanupErr = IF FailedZones = {} THEN NoErr ELSE cleanupLog[LastOf(FailedZones)]

\* the first zone's cleanup failed, the second zone's was still run and
\* succeeded, and the first zone's error is the one returned
C12_Witness ==
    /\ Returned /\ originalDomains = <<"z1", "z2">> /\ passed = <<"z1", "z2">>
    /\ cleanupLog[1] # NoErr /\ cleanupLog[2] = NoErr /\ cleanupErr = cleanupLog[1]

\* both zones failed: the second zone's error is the one returned
C12_WitnessBoth ==
    /\ Returned /\ Len(cleanupLog) = 2
    /\ cleanupLog[1] # NoErr /\ cleanupLog[2] # NoErr /\ cleanupErr = cleanupLog[2]

\* C13: round trip. Through the successful Present calls of a call and a final
\* cleanup in which every correction succeeds, only validation records come and
\* go: no other record of a zone is removed or changed, and after the cleanup
\* every touched zone holds, at each provider, exactly the records of its
\* original configuration.
OtherRecords(lv) == [p \in Providers |-> [z \in Zones |-> { r \in lv[p][z] : ~ IsTXT(r) }]]
Touched == { DomainContainingFQDN(presented[i]) : i \in 1..Len(presented) }

C13_PresentStep ==
    (pc = "acting" /\ tried' = tried + 1 /\ presentRet'.err = NoErr) =>
        OtherRecords(live') = OtherRecords(live)

C13_CleanupStep ==
    (pc = "acting" /\ pc' = "idle" /\ Len(presented) = tried
        /\ \A i \in 1..Len(cleanupLog') : cleanupLog'[i] = NoErr) =>
        \A z \in Touched :
            \A i \in 1..Len(cfgDomains[z].DNSProviderInstances) :
                LET p == cfgDomains[z].DNSProviderInstances[i]
                IN  p \notin IgnoredProviders =>
                      /\ live'[p][z] = Range(cfgDomains[z].Records)
                      /\ OtherRecords(live')[p][z] = OtherRecords(live)[p][z]

C13_RoundTrip == [][C13_PresentStep /\ C13_CleanupStep]_vars

\* C14: dnsNamesEqual(a, b) is true exactly when a and b have the same length
\* and hold the same names, each as often, in whatever order.
C14_NamesEqualIsMultisetEquality ==
    fnOut # NoResult =>
        (fnOut.eq <=> (Len(fnIn.a) = Len(fnIn.b) /\ SameNames(fnIn.a, fnIn.b)))

C14_Witness ==
    /\ fnIn = [a |-> <<"b.z1", "a.z1">>, b |-> <<"a.z1", "b.z1">>]
    /\ fnOut # NoResult /\ fnOut.eq

\* one list is part of the other; a name twice is not two names
C14_WitnessUnequal ==
    /\ fnIn.a = <<"a.z1", "a.z1">> /\ fnIn.b = <<"a.z1", "b.z1">>
    /\ fnOut # NoResult /\ ~ fnOut.eq

\* C15: once finalCleanUp has processed a zone it stays Cleaned: a Present of a
\* later call does not reconcile a working copy that still holds validation
\* records of the earlier issuance, so no validation record of an earlier call
\* is put (back) into a live zone.
OfEarlierCall(r) == IsTXT(r) /\ r[3] < ncalls

C15_Step ==
    (pc = "acting" /\ tried' = tried + 1) =>
        LET z == presentRet'.name
        IN  /\ Seen(domains, z) =>
                  \A i \in 1..Len(domains[z].Records) : ~ OfEarlierCall(domains[z].Records[i])
            /\ \A p \in Providers : \A r \in live'[p][z] \ live[p][z] : ~ OfEarlierCall(r)

C15_CleanedIsTerminal == [][C15_Step]_vars

\* C16: getAndRunCorrections runs the corrections in the order produced and
\* stops at the first failure, of a correction or of its notification: no later
\* correction of the batch runs and that error is returned, the correction's
\* error before the notifier's; the notifier is called once for every correction
\* that ran, the failing one included. In Present the validation record stays
\* in the working copy and the zone stays registered for final cleanup.
Failing(e) == e.err # NoErr \/ e.err2 # NoErr

RECURSIVE EffectOf(_, _, _)
EffectOf(lv, trace, i) ==
    IF i > Len(trace) THEN lv
    ELSE EffectOf(IF trace[i].err = NoErr THEN ApplyCorrection(lv, trace[i].c) ELSE lv,
                  trace, i + 1)

RanBatch == pc = "acting" /\ tried' = tried + 1 /\ presentRet'.batch # <<>>

C16_Step ==
    RanBatch =>
        LET tr == presentRet'.trace
            cs == presentRet'.batch
            z  == presentRet'.name
            n  == Len(tr)
        IN  /\ n >= 1 /\ n <= Len(cs) /\ presentRet'.ran = n
            /\ \A i \in 1..n : tr[i].c = cs[i]
            /\ \A i \in 1..(n - 1) : ~ Failing(tr[i])
            /\ n < Len(cs) => Failing(tr[n])
            /\ presentRet'.err = IF tr[n].err # NoErr THEN <<"correction", z>>
                                 ELSE IF tr[n].err2 # NoErr THEN <<"notify", z>>
                                 ELSE NoErr
            /\ live' = EffectOf(live, tr, 1)
            /\ TXTRec(presentRet'.n, ncalls) \in Range(domains'[z].Records)
            /\ z \in Range(originalDomains')

C16_StopsAtFirstFailure == [][C16_Step]_vars

\* a batch of two whose first correction ran and failed to be notified: the
\* second did not run, the record is in the working copy, the zone registered
C16_Witness ==
    /\ pc = "acting" /\ Len(presentRet.batch) = 2 /\ presentRet.ran = 1
    /\ presentRet.trace[1].err = NoErr /\ presentRet.err = <<"notify", "z1">>
    /\ TXTRec(presentRet.n, ncalls) \in Range(domains["z1"].Records)
    /\ "z1" \in Range(originalDomains)

\* correction and notification both failed: the correction's error is returned
C16_WitnessBoth ==
    /\ pc = "acting" /\ presentRet.ran = 1
    /\ presentRet.trace[1].err # NoErr /\ presentRet.trace[1].err2 # NoErr
    /\ presentRet.err = <<"correction", "z1">>

\* C17: CleanUp returns nil, changes neither the domains map, originalDomains
\* nor a working copy, and executes no correction; so while a call runs, no
\* Present and no CleanUp takes a validation record out of a working copy or
\* out of a live zone: a validation record leaves the live zone only in the
\* final cleanup of a returning call, which runs when the certificate has been
\* stored.
IsPrefix(a, b) == Len(a) <= Len(b) /\ SubSeq(b, 1, Len(a)) = a
LiveTXT(lv) == [p \in Providers |-> [z \in Zones |-> { r \in lv[p][z] : IsTXT(r) }]]

C17_CleanUpReturnsNil ==
    \A n \in Range(NameOrder) : CleanUp(Mgr, n, ncalls).err = NoErr

C17_CleanUpStep ==
    (pc = "acting" /\ cleaned' = cleaned + 1) =>
        /\ UNCHANGED <<cfgDomains, domains, originalDomains, live>>
        /\ execd' = execd

C17_RecordsStay ==
    (pc = "acting" /\ pc' = "acting") =>
        /\ \A z \in DOMAIN domains :
              z \in DOMAIN domains' /\ IsPrefix(domains[z].Records, domains'[z].Records)
        /\ \A p \in Providers : \A z \in Zones : LiveTXT(live)[p][z] \subseteq LiveTXT(live')[p][z]

C17_RemovedAtReturn ==
    (\E p \in Providers : \E z \in Zones : LiveTXT(live)[p][z] \ LiveTXT(live')[p][z] # {}) =>
        /\ pc' = "idle" /\ (pc = "acting" \/ ncalls' = ncalls + 1)
        /\ (pc = "acting" /\ outcome'.action = NoErr /\ outcome'.store = NoErr) =>
              storage'[cfg.CertName].serial = ncalls

C17_CleanUpIsNoOp ==
    [] C17_CleanUpReturnsNil
    /\ [][C17_CleanUpStep /\ C17_RecordsStay /\ C17_RemovedAtReturn]_vars

\* CleanUp has been called for both names of a request and both validation
\* records are still in the working copy and in the live zone
C17_Witness ==
    /\ pc = "acting" /\ cleaned = 2 /\ Len(presented) = 2
    /\ \A i \in 1..2 :
          /\ TXTRec(presented[i], ncalls) \in live["p1"]["z1"]
          /\ TXTRec(presented[i], ncalls) \in Range(domains["z1"].Records)

\* C18: for every diff the provider's list holds, after the reports, one
\* correction per deleted record, then the batched creation exactly when there
\* is something to create, then the batched modification exactly when there is
\* something to modify; run in order, every deletion comes before the creation
\* and the creation before the modification.
Stage(kind) == CASE kind = "report" -> 0 [] kind = "delete" -> 1
                 [] kind = "create" -> 2 [] kind = "modify" -> 3

C18_DeleteCreateModify ==
    fnOut # NoResult =>
        LET cs == fnOut.all
            tr == fnOut.trace
            nr == Len(fnIn.toReport)
            nd == Len(fnIn.del)
            nc == IF fnIn.create # <<>> THEN 1 ELSE 0
            nm == IF fnIn.modify # <<>> THEN 1 ELSE 0
        IN  /\ Len(cs) = nr + nd + nc + nm
            /\ \A i \in 1..nr : cs[i].kind = "report"
            /\ \A i \in 1..nd : cs[nr + i].kind = "delete" /\ cs[nr + i].recs = {fnIn.del[i]}
            /\ nc = 1 => /\ cs[nr + nd + 1].kind = "create"
                         /\ cs[nr + nd + 1].recs = Range(fnIn.create)
            /\ nm = 1 => /\ cs[nr + nd + nc + 1].kind = "modify"
                         /\ cs[nr + nd + nc + 1].recs = Range(fnIn.modify)
            /\ Len(tr) = nd + nc + nm
            /\ \A i, j \in 1..Len(tr) : i < j => Stage(tr[i].c.kind) <= Stage(tr[j].c.kind)

\* a diff with a report, two deletions, creations and modifications
C18_Witness ==
    /\ fnOut # NoResult
    /\ Len(fnIn.toReport) = 1 /\ Len(fnIn.del) = 2
    /\ Len(fnIn.create) = 2 /\ Len(fnIn.modify) = 1
    /\ Len(fnOut.all) = 5 /\ Len(fnOut.trace) = 4

\* C19: IssueOrRenewCert leaves the request as the caller passed it: cfg.Names
\* after the call, and the domains handed to Obtain, are the caller's sequence,
\* element for element in the same order.
C19_RequestUnchanged ==
    ncalls > 0 =>
        /\ cfg.Names = call.req.Names
        /\ \A i \in 1..Len(calls) :
              calls[i].op = "Obtain" => calls[i].Domains = call.req.Names

\* C20: the drift check, Present's publication and finalCleanUp compute no
\* corrections for, and execute none against, a provider on the ignore list;
\* the corrections of the other providers come in attachment order; computing
\* them leaves the configuration as it was; drift at an ignored provider alone
\* does not fail the drift check.
Attached(d) == Range(d.DNSProviderInstances)
Configs == { cfgDomains[z] : z \in Zones } \cup { domains[z] : z \in DOMAIN domains }
Place(d, p) == CHOOSE i \in 1..Len(d.DNSProviderInstances) : d.DNSProviderInstances[i] = p
InStep(d, p, lv) == lv[p][d.Name] = Range(d.Records)

C20_Corrections ==
    \A d \in Configs :
        LET cs == getCorrections(d, live, IgnoredProviders)
        IN  /\ \A i \in 1..Len(cs) : cs[i].prov \in Attached(d) \ IgnoredProviders
            /\ \A i, j \in 1..Len(cs) : i < j => Place(d, cs[i].prov) <= Place(d, cs[j].prov)
            /\ \A p \in Attached(d) \ IgnoredProviders :
                  ~ InStep(d, p, live) => \E i \in 1..Len(cs) : cs[i].prov = p

C20_NothingExecuted ==
    ndrift' = ndrift =>
        /\ \A p \in IgnoredProviders : live'[p] = live[p]
        /\ pc' = "idle" => UNCHANGED <<cfgDomains, domains>>

C20_DriftCheck ==
    (pc = "acting" /\ tried' = tried + 1) =>
        LET z == presentRet'.name
            d == FixNameservers(cfgDomains[z])
        IN  /\ \A i \in 1..Len(presentRet'.batch) :
                  presentRet'.batch[i].prov \notin IgnoredProviders
            /\ (~ Seen(domains, z) /\ presentRet'.fault = "none"
                   /\ \A p \in Attached(d) \ IgnoredProviders : InStep(d, p, live)) =>
                  z \in checked'

C20_IgnoredProvidersLeftAlone ==
    [] C20_Corrections /\ [][C20_NothingExecuted /\ C20_DriftCheck]_vars

\* the ignored provider's zone has drifted, the drift check let Present
\* through, the record was published at the other provider only, and the
\* final cleanup left the ignored provider's drift where it was
C20_Witness ==
    /\ IgnoredProviders = {"p2"} /\ Returned /\ outcome.action = NoErr
    /\ "z1" \in checked /\ "z1" \in published
    /\ ForeignRec \in live["p2"]["z1"]
    /\ \A r \in live["p2"]["z1"] : ~ IsTXT(r)

====
